---- MODULE Spec2Model ----
(***************************************************************************)
(* AirCast: the prediction store of backend/main.py (upload_csv,           *)
(* upload_json, get_predictions over data/predictions.parquet and          *)
(* data/metadata.json) and the two pure reductions of frontend/app.py      *)
(* (filter_resample and the station snapshot).                             *)
(*                                                                         *)
(* Scheduling.  upload_csv and upload_json are `async def`: their bodies   *)
(* run on the single event loop and contain no await after the request     *)
(* body has been received, so one upload body runs to its return before    *)
(* another starts.  get_predictions is a plain `def`: the framework runs   *)
(* it on a worker thread, so its file reads interleave with the file       *)
(* writes of an upload body.                                               *)
(*                                                                         *)
(* Files.  A parquet file is a sequence of blocks: the data pages (one     *)
(* per row here) followed by the footer that holds the schema and the row  *)
(* count.  A writer opens with truncation and writes block after block at  *)
(* its own offset; a reader reads the footer at the end of the file and    *)
(* then the pages the footer announces.                                    *)
(***************************************************************************)
EXTENDS Integers, Sequences, FiniteSets, TLC

\* ------------------------------------------------------------- bounds
MaxRows == 2
MaxGen == 2
MaxLen == 2
MaxStationRows == 3

Uploaders == {"u1", "u2"}
Readers == {"r1"}

\* ------------------------------------------------------------- backend data
Required ==
    {"timestamp", "station_id", "station_name", "lat", "lon",
     "pollutant", "prediction", "lower_q", "upper_q"}

\* The column sets the uploads are drawn from: the full schema, a table
\* lacking two required columns, and one lacking the timestamp and another.
ColumnSets ==
    {Required,
     Required \ {"lower_q", "upper_q"},
     Required \ {"timestamp", "lower_q"}}

\* Whether the timestamp cells parse matters only with a timestamp column.
TsCells(c) == IF "timestamp" \in c THEN BOOLEAN ELSE {TRUE}

\* An uploaded body: whether it parses as CSV at all, the columns of its
\* table, whether every timestamp cell is a parseable instant, its rows.
CsvPayloads ==
    {[parse |-> FALSE, cols |-> Required, tsok |-> TRUE, n |-> 1]}
    \cup
    UNION {{[parse |-> TRUE, cols |-> c, tsok |-> t, n |-> k] :
                t \in TsCells(c), k \in 1..MaxRows} : c \in ColumnSets}

\* payload.get("rows") is missing or empty when n = 0.
JsonPayloads ==
    {[parse |-> TRUE, cols |-> Required, tsok |-> TRUE, n |-> 0]}
    \cup
    UNION {{[parse |-> TRUE, cols |-> c, tsok |-> t, n |-> k] :
                t \in TsCells(c), k \in 1..MaxRows} : c \in ColumnSets}

\* A stored table: the upload it came from, its rows, the dtype of its
\* timestamp column ("absent" without one).
NoTable == [gen |-> 0, n |-> 0, schema |-> "none"]

\* JSON null / Python None as the value of last_update.
Null == 0

\* The timestamp of row i of the table of upload g: whole seconds and a
\* sub-second part.
TsOf(g, i) == [sec |-> 10 * g + i, micro |-> i]
NoTs == [sec |-> 0, micro |-> 0]

\* The blocks of a file.  A page is row idx of the n rows of the table of
\* upload gen; the footer holds the row count and the timestamp dtype.
Page(g, i, n) ==
    [kind |-> "page", gen |-> g, idx |-> i, n |-> n, schema |-> "none", ts |-> TsOf(g, i)]
Footer(g, n, s) ==
    [kind |-> "footer", gen |-> g, idx |-> 0, n |-> n, schema |-> s, ts |-> NoTs]
Hole ==
    [kind |-> "hole", gen |-> 0, idx |-> 0, n |-> 0, schema |-> "none", ts |-> NoTs]

\* df.to_parquet: the bytes of the file, pages first, footer last.
FileImage(g, n, s) == [i \in 1..(n + 1) |-> IF i <= n THEN Page(g, i, n) ELSE Footer(g, n, s)]

\* A write of block b at byte offset off of file f: it overwrites what is
\* there, or extends the file (leaving a hole when off is past the end).
WriteAt(f, off, b) ==
    IF off < Len(f)
    THEN [f EXCEPT ![off + 1] = b]
    ELSE [i \in 1..(off + 1) |-> IF i <= Len(f) THEN f[i] ELSE IF i = off + 1 THEN b ELSE Hole]

\* df["timestamp"].dt.strftime("%Y-%m-%d %H:%M:%S"): the text keeps the
\* whole seconds and drops the sub-second part.
Strftime(ts) == [text |-> ts.sec]

\* One record of df.to_dict(orient="records") after the conversion.
OutRow(p) == [gen |-> p.gen, idx |-> p.idx, n |-> p.n, timestamp |-> Strftime(p.ts)]

\* ------------------------------------------------------------- state
VARIABLES
    predExists,   \* PRED_PATH.exists()
    predFile,     \* the blocks of data/predictions.parquet
    metaExists,   \* META_PATH.exists()
    metaFile,     \* data/metadata.json: <<>> when empty, else one JSON object
    clock,        \* the instant dt.datetime.utcnow() returns, as a counter
    up,           \* per upload request: position, input, response
    rd,           \* per GET /predictions request: position, locals, response
    nextGen,      \* history: number of upload bodies that reached the store
    stored,       \* history: the table whose to_parquet completed last
    lastOk,       \* history: the table of the upload that answered 200 last
    roverlap,     \* history: an upload body ran since this read began
    series,       \* filter_resample: the input frame, rows of (t, v)
    time_scope,   \* the sidebar's time scope
    granularity,  \* the sidebar's granularity
    resampled,    \* filter_resample: its return value, once computed
    fpc,          \* filter_resample: "input" or "done"
    stations,     \* stations_df: rows of (station, to)
    snapshot,     \* latest_station_data: the indices of the rows kept
    spc           \* snapshot: "input" or "done"

bvars == <<predExists, predFile, metaExists, metaFile, clock, up, rd,
           nextGen, stored, lastOk, roverlap>>
fvars == <<series, time_scope, granularity, resampled, fpc>>
svars == <<stations, snapshot, spc>>
vars == <<bvars, fvars, svars>>

IdleUpload ==
    [pc |-> "idle", kind |-> "none", missing |-> {}, df |-> NoTable, off |-> 0,
     now |-> 0, status |-> 0, detail |-> {}, received |-> 0, raced |-> FALSE]

IdleRead ==
    [pc |-> "idle", n |-> 0, schema |-> "none", buf |-> <<>>,
     status |-> 0, last_update |-> Null, rows |-> <<>>, by |-> 0]

\* ------------------------------------------------------------- uploads
BodyPcs == {"open", "write", "meta_open", "meta_write"}

\* An upload body is running: it has passed validation and not returned.
Active(u) == up[u].pc \in BodyPcs

\* A read is running, or its response has not been consumed yet.
Reading(r) == rd[r].pc # "idle"

\* The event loop runs one coroutine at a time and the bodies of
\* upload_csv / upload_json do not await: a body starts only when no
\* other upload body is between its first statement and its return.
LoopIdleUnlocked(u) == TRUE
LoopIdle(u) == \A v \in Uploaders \ {u} : ~Active(v)

InFlight == Cardinality({u \in Uploaders : up[u].pc = "await"})

\* A client sends POST /upload_csv or POST /upload_json; the framework
\* receives the body (await file.read() / the parsed JSON payload).
Start(u) ==
    /\ UNCHANGED <<fvars, svars>>
    /\ up[u].pc = "idle"
    /\ nextGen + InFlight < MaxGen
    /\ up' = [up EXCEPT ![u].pc = "await"]
    /\ UNCHANGED <<predExists, predFile, metaExists, metaFile, clock, rd,
                   nextGen, stored, lastOk, roverlap>>

\* The request is answered with an HTTP error before anything is stored.
Reject(u, k, p, code, names) ==
    /\ up' = [up EXCEPT ![u] = [IdleUpload EXCEPT !.pc = "done", !.kind = k,
                                                  !.missing = Required \ p.cols,
                                                  !.status = code, !.detail = names]]
    /\ UNCHANGED <<predExists, predFile, metaExists, metaFile, clock, rd,
                   nextGen, stored, lastOk, roverlap>>

\* The dtype pd.read_csv(parse_dates=["timestamp"]) gives the timestamp
\* column: datetime64 when every cell parses, object (the raw strings)
\* otherwise.
CsvSchema(p) == IF p.tsok THEN "datetime" ELSE "object"

\* pd.DataFrame(rows) with pd.to_datetime applied when the column exists.
JsonSchema(p) == IF "timestamp" \in p.cols THEN "datetime" ELSE "absent"

\* The frame df a handler holds after validation: the g-th table to reach
\* the store.
Frame(g, k, p) ==
    [gen |-> g, n |-> p.n, schema |-> IF k = "csv" THEN CsvSchema(p) ELSE JsonSchema(p)]

\* History: another upload request was waiting on the event loop when the
\* body of u began.
Raced(u) == \E v \in Uploaders \ {u} : up[v].pc = "await"

\* The frame df passed validation; the handler goes on to df.to_parquet.
Accept(u, k, p) ==
    /\ nextGen' = nextGen + 1
    /\ up' = [up EXCEPT ![u] = [IdleUpload EXCEPT !.pc = "open", !.kind = k,
                                                  !.missing = Required \ p.cols,
                                                  !.df = Frame(nextGen + 1, k, p),
                                                  !.raced = Raced(u)]]
    /\ roverlap' = [r \in Readers |-> roverlap[r] \/ Reading(r)]
    /\ UNCHANGED <<predExists, predFile, metaExists, metaFile, clock, rd,
                   stored, lastOk>>

\* upload_csv, lines 72-80: read_csv raises on bytes that are no CSV and on
\* a parse_dates column the header lacks (the message names that column);
\* then the required-column check.
UploadCsvBodyLate(u) ==
    /\ UNCHANGED <<fvars, svars>>
    /\ up[u].pc = "await" /\ LoopIdle(u)
    /\ \E p \in CsvPayloads :
       IF ~p.parse
       THEN Reject(u, "csv", p, 400, {})
       ELSE IF "timestamp" \notin p.cols
       THEN Reject(u, "csv", p, 400, {"timestamp"})
       ELSE IF ~(Required \subseteq p.cols)
       THEN /\ predExists' = TRUE
            /\ predFile' = <<>>
            /\ up' = [up EXCEPT ![u] = [IdleUpload EXCEPT !.pc = "done", !.kind = "csv",
                                          !.missing = Required \ p.cols,
                                          !.status = 400, !.detail = Required \ p.cols]]
            /\ UNCHANGED <<metaExists, metaFile, clock, rd, nextGen,
                           stored, lastOk, roverlap>>
       ELSE Accept(u, "csv", p)

UploadCsvBody(u) ==
    /\ UNCHANGED <<fvars, svars>>
    /\ up[u].pc = "await" /\ LoopIdle(u)
    /\ \E p \in CsvPayloads :
       IF ~p.parse
       THEN Reject(u, "csv", p, 400, {})
       ELSE IF "timestamp" \notin p.cols
       THEN Reject(u, "csv", p, 400, {"timestamp"})
       ELSE IF ~(Required \subseteq p.cols)
       THEN Reject(u, "csv", p, 400, Required \ p.cols)
       ELSE Accept(u, "csv", p)

\* upload_json, lines 93-98: no rows is a 400; pd.to_datetime raises on an
\* unparseable timestamp (an unhandled exception, HTTP 500); the columns
\* are not checked.
UploadJsonBody(u) ==
    /\ UNCHANGED <<fvars, svars>>
    /\ up[u].pc = "await" /\ LoopIdle(u)
    /\ \E p \in JsonPayloads :
       IF p.n = 0
       THEN Reject(u, "json", p, 400, {})
       ELSE IF "timestamp" \in p.cols /\ ~p.tsok
       THEN Reject(u, "json", p, 500, {})
       ELSE Accept(u, "json", p)

\* df.to_parquet(PRED_PATH): the file is created or truncated on open.
Open(u) ==
    /\ UNCHANGED <<fvars, svars>>
    /\ up[u].pc = "open"
    /\ predExists' = TRUE
    /\ predFile' = <<>>
    /\ up' = [up EXCEPT ![u].pc = "write", ![u].off = 0]
    /\ UNCHANGED <<metaExists, metaFile, clock, rd, nextGen, stored,
                   lastOk, roverlap>>

\* df.to_parquet(PRED_PATH): the next block is written at the writer's
\* offset; after the footer the file is closed.
WriteBlock(u) ==
    /\ UNCHANGED <<fvars, svars>>
    /\ up[u].pc = "write"
    /\ LET df == up[u].df
           img == FileImage(df.gen, df.n, df.schema)
           last == up[u].off = df.n
       IN /\ predFile' = WriteAt(predFile, up[u].off, img[up[u].off + 1])
          /\ up' = [up EXCEPT ![u].off = @ + 1,
                              ![u].pc = IF last THEN "meta_open" ELSE "write"]
          /\ stored' = IF last THEN df ELSE stored
    /\ UNCHANGED <<predExists, metaExists, metaFile, clock, rd, nextGen,
                   lastOk, roverlap>>

\* now_iso(): the current instant.
NowIso == clock + 1

\* write_meta, line 32: the metadata object (by: history, the upload that
\* wrote it).
MetaJson(now, g) == [last_update |-> now, by |-> g]

\* write_meta: META_PATH.write_text opens the file for writing, which
\* creates or truncates it.
MetaOpen(u) ==
    /\ UNCHANGED <<fvars, svars>>
    /\ up[u].pc = "meta_open"
    /\ clock' = clock + 1
    /\ metaExists' = TRUE
    /\ metaFile' = <<>>
    /\ up' = [up EXCEPT ![u].pc = "meta_write", ![u].now = NowIso]
    /\ UNCHANGED <<predExists, predFile, rd, nextGen, stored, lastOk,
                   roverlap>>

\* write_meta: the JSON text is written and the file closed; the handler
\* returns {"status": "ok", "rows_received": len(df)}.
MetaWrite(u) ==
    /\ UNCHANGED <<fvars, svars>>
    /\ up[u].pc = "meta_write"
    /\ metaFile' = <<MetaJson(up[u].now, up[u].df.gen)>>
    /\ up' = [up EXCEPT ![u].pc = "done", ![u].status = 200, ![u].off = 0, ![u].now = 0,
                        ![u].received = up[u].df.n]
    /\ lastOk' = up[u].df
    /\ UNCHANGED <<predExists, predFile, metaExists, clock, rd, nextGen,
                   stored, roverlap>>

\* The client has its response; it may send another request.
Return(u) ==
    /\ UNCHANGED <<fvars, svars>>
    /\ up[u].pc = "done"
    /\ up' = [up EXCEPT ![u] = IdleUpload]
    /\ UNCHANGED <<predExists, predFile, metaExists, metaFile, clock, rd,
                   nextGen, stored, lastOk, roverlap>>

\* ------------------------------------------------------------- GET /predictions
Respond(r, code, lu, rows, by) ==
    rd' = [rd EXCEPT ![r] = [IdleRead EXCEPT !.pc = "done", !.status = code,
                                             !.last_update = lu, !.rows = rows,
                                             !.by = by]]

\* A client sends GET /predictions; lines 51-52: a missing store is the
\* empty answer.
ReadStart(r) ==
    /\ UNCHANGED <<fvars, svars>>
    /\ rd[r].pc = "idle"
    /\ IF ~predExists
       THEN Respond(r, 200, Null, <<>>, 0)
       ELSE rd' = [rd EXCEPT ![r].pc = "footer"]
    /\ roverlap' = [roverlap EXCEPT ![r] = \E u \in Uploaders : Active(u)]
    /\ UNCHANGED <<predExists, predFile, metaExists, metaFile, clock, up,
                   nextGen, stored, lastOk>>

\* pd.read_parquet: the footer is read from the end of the file; a file
\* that does not end in a footer is no parquet file (the exception is
\* unhandled, HTTP 500).
ReadFooter(r) ==
    /\ UNCHANGED <<fvars, svars>>
    /\ rd[r].pc = "footer"
    /\ IF predFile = <<>> \/ predFile[Len(predFile)].kind # "footer"
       THEN Respond(r, 500, Null, <<>>, 0)
       ELSE LET f == predFile[Len(predFile)] IN
            rd' = [rd EXCEPT ![r].pc = "pages", ![r].n = f.n, ![r].schema = f.schema]
    /\ UNCHANGED <<predExists, predFile, metaExists, metaFile, clock, up,
                   nextGen, stored, lastOk, roverlap>>

\* Lines 55-57 on the frame df just read: df["timestamp"] raises KeyError
\* without the column and .dt raises AttributeError on a column that is
\* not datetime64; otherwise the rows are converted to records.
Convert(r, df) ==
    IF rd[r].schema # "datetime"
    THEN Respond(r, 500, Null, <<>>, 0)
    ELSE rd' = [rd EXCEPT ![r] = [IdleRead EXCEPT !.pc = "meta",
                                    !.rows = [i \in 1..Len(df) |-> OutRow(df[i])]]]

\* pd.read_parquet: the next page the footer announces is read; a read
\* past the end of the file or of something that is no page raises.  After
\* the last page the frame is converted.
ReadPage(r) ==
    /\ UNCHANGED <<fvars, svars>>
    /\ rd[r].pc = "pages"
    /\ LET i == Len(rd[r].buf) + 1 IN
       IF i > Len(predFile) \/ predFile[i].kind # "page"
       THEN Respond(r, 500, Null, <<>>, 0)
       ELSE IF i = rd[r].n
       THEN Convert(r, Append(rd[r].buf, predFile[i]))
       ELSE rd' = [rd EXCEPT ![r].buf = Append(@, predFile[i])]
    /\ UNCHANGED <<predExists, predFile, metaExists, metaFile, clock, up,
                   nextGen, stored, lastOk, roverlap>>

\* read_meta, lines 35-38, and the response of line 58: json.loads raises
\* on an empty file.
ReadMeta(r) ==
    /\ UNCHANGED <<fvars, svars>>
    /\ rd[r].pc = "meta"
    /\ IF ~metaExists
       THEN Respond(r, 200, Null, rd[r].rows, 0)
       ELSE IF metaFile = <<>>
       THEN Respond(r, 500, Null, <<>>, 0)
       ELSE Respond(r, 200, metaFile[1].last_update, rd[r].rows, metaFile[1].by)
    /\ UNCHANGED <<predExists, predFile, metaExists, metaFile, clock, up,
                   nextGen, stored, lastOk, roverlap>>

\* The client has its response; it may send another request.
ReadReturn(r) ==
    /\ UNCHANGED <<fvars, svars>>
    /\ rd[r].pc = "done"
    /\ rd' = [rd EXCEPT ![r] = IdleRead]
    /\ roverlap' = [roverlap EXCEPT ![r] = FALSE]
    /\ UNCHANGED <<predExists, predFile, metaExists, metaFile, clock, up,
                   nextGen, stored, lastOk>>

\* The state after construction: data/ exists and is empty, no request
\* is in flight; the dashboard has its default selections and no data.
Init ==
    /\ predExists = FALSE
    /\ predFile = <<>>
    /\ metaExists = FALSE
    /\ metaFile = <<>>
    /\ clock = 0
    /\ up = [u \in Uploaders |-> IdleUpload]
    /\ rd = [r \in Readers |-> IdleRead]
    /\ nextGen = 0
    /\ stored = NoTable
    /\ lastOk = NoTable
    /\ roverlap = [r \in Readers |-> FALSE]
    /\ series = <<>> /\ time_scope = "Past Week" /\ granularity = "Hourly"
    /\ resampled = <<>> /\ fpc = "input"
    /\ stations = <<>> /\ snapshot = {} /\ spc = "input"
Next ==
    \/ \E u \in Uploaders :
         \/ Start(u)
         \/ UploadCsvBody(u)
         \/ UploadJsonBody(u)
         \/ Open(u)
         \/ WriteBlock(u)
         \/ MetaOpen(u)
         \/ MetaWrite(u)
         \/ Return(u)
    \/ \E r \in Readers :
         \/ ReadStart(r)
         \/ ReadFooter(r)
         \/ ReadPage(r)
         \/ ReadMeta(r)
         \/ ReadReturn(r)

Spec == Init /\ [][Next]_vars

\* ------------------------------------------------------------- filter_resample
\* Instants are whole hours.  NaT is the missing instant that
\* pd.to_datetime(errors="coerce") produces; NaN is a missing number.
NaT == -1
NaN == -1

\* The outcome of a max() that raises on an empty sequence, which
\* Series.max() does not.
Raised == NaT - 1

Times == {2, 30, 400, 1500}
Samples == {[t |-> t, v |-> v] : t \in Times \cup {NaT}, v \in {NaN, 10}}

Scopes == {"Past Day", "Past Week", "Past Month", "Past Year", "All Time"}
Granularities == {"Hourly", "Daily", "Weekly", "Monthly"}

SeqsUpTo(S, n) == UNION {[1..k -> S] : k \in 0..n}

\* Lines 51-58: the lookback of a time scope, in hours.
Lookback(scope) ==
    CASE scope = "Past Day" -> 24
      [] scope = "Past Week" -> 7 * 24
      [] scope = "Past Month" -> 30 * 24
      [] scope = "Past Year" -> 365 * 24

\* rule_map, line 65: the bucket width of a granularity, in hours.
Width(g) ==
    CASE g = "Hourly" -> 1
      [] g = "Daily" -> 24
      [] g = "Weekly" -> 7 * 24
      [] g = "Monthly" -> 30 * 24

SetMax(S) == CHOOSE x \in S : \A y \in S : y <= x
SetMin(S) == CHOOSE x \in S : \A y \in S : x <= y

Stamps(df) == {df[i].t : i \in 1..Len(df)} \ {NaT}

\* df[time_col].max(): missing instants are skipped; NaT when nothing is left.
MaxTimeBuiltin(df) == IF Stamps(df) = {} THEN Raised ELSE SetMax(Stamps(df))
MaxTime(df) == IF Stamps(df) = {} THEN NaT ELSE SetMax(Stamps(df))

\* df[time_col].min()
MinTime(df) == IF Stamps(df) = {} THEN NaT ELSE SetMin(Stamps(df))

\* Lines 50-60: NaT minus a Timedelta is NaT.
StartTime(df, scope) ==
    IF scope = "All Time" THEN MinTime(df)
    ELSE IF MaxTime(df) = NaT THEN NaT
    ELSE MaxTime(df) - Lookback(scope)

\* Line 61: df[df[time_col] >= start_time]; a comparison with NaT is False.
Keep(row, start) == row.t # NaT /\ start # NaT /\ row.t >= start

RECURSIVE SelectRows(_, _)
SelectRows(df, start) ==
    IF df = <<>> THEN <<>>
    ELSE LET rest == SelectRows(Tail(df), start) IN
         IF Keep(Head(df), start) THEN <<Head(df)>> \o rest ELSE rest

Filtered(df, scope) == SelectRows(df, StartTime(df, scope))

\* resample(rule) of a fixed-width rule: the bins are anchored at midnight
\* of the first day (origin="start_day") and closed on the left.
FirstEdge(first, w) ==
    LET origin == (first \div 24) * 24 IN origin + ((first - origin) \div w) * w

\* .mean() of one bin: the mean of its non-null values as sum over count,
\* NaN when the bin holds none.
BinMean(df, lo, w) ==
    LET in == {i \in 1..Len(df) : df[i].t >= lo /\ df[i].t < lo + w /\ df[i].v # NaN}
        RECURSIVE Sum(_)
        Sum(S) == IF S = {} THEN 0 ELSE LET i == CHOOSE i \in S : TRUE IN df[i].v + Sum(S \ {i})
    IN IF in = {} THEN [sum |-> NaN, n |-> 0] ELSE [sum |-> Sum(in), n |-> Cardinality(in)]

\* A grouping that yields only the bins that hold a sample.
ResampleOccupied(df, w) ==
    IF df = <<>> THEN <<>>
    ELSE LET first == FirstEdge(SetMin(Stamps(df)), w)
             last == SetMax(Stamps(df))
             all == [k \in 1..((last - first) \div w + 1) |->
                       [t |-> first + (k - 1) * w, mean |-> BinMean(df, first + (k - 1) * w, w)]]
         IN SelectSeq(all, LAMBDA b : \E i \in 1..Len(df) : df[i].t >= b.t /\ df[i].t < b.t + w)

\* Line 66: df.resample(rule).mean().reset_index(): one row for every bin
\* from the bin of the first sample to the bin of the last one.
Resample(df, w) ==
    IF df = <<>> THEN <<>>
    ELSE LET first == FirstEdge(SetMin(Stamps(df)), w)
             last == SetMax(Stamps(df))
         IN [k \in 1..((last - first) \div w + 1) |->
               [t |-> first + (k - 1) * w, mean |-> BinMean(df, first + (k - 1) * w, w)]]

BackendIdle ==
    /\ predExists = FALSE /\ predFile = <<>> /\ metaExists = FALSE /\ metaFile = <<>>
    /\ clock = 0 /\ nextGen = 0 /\ stored = NoTable /\ lastOk = NoTable
    /\ up = [u \in Uploaders |-> IdleUpload]
    /\ rd = [r \in Readers |-> IdleRead]
    /\ roverlap = [r \in Readers |-> FALSE]

InitPipeline ==
    /\ BackendIdle
    /\ stations = <<>> /\ snapshot = {} /\ spc = "input"
    /\ series \in SeqsUpTo(Samples, MaxLen)
    /\ time_scope = "Past Week"
    /\ granularity = "Hourly"
    /\ resampled = <<>>
    /\ fpc = "input"

\* filter_resample, lines 48-67.
FilterResample ==
    /\ fpc = "input"
    /\ IF MaxTime(series) = Raised
       THEN fpc' = "raised" /\ resampled' = <<>>
       ELSE /\ fpc' = "done"
            /\ resampled' = Resample(Filtered(series, time_scope), Width(granularity))
    /\ UNCHANGED <<series, time_scope, granularity>>
    /\ UNCHANGED <<bvars, svars>>

\* Lines 35-39: the sidebar's time scope changes and the script reruns.
SelectScope ==
    /\ fpc # "input"
    /\ \E s \in Scopes \ {time_scope} : time_scope' = s
    /\ fpc' = "input" /\ resampled' = <<>>
    /\ UNCHANGED <<series, granularity>>
    /\ UNCHANGED <<bvars, svars>>

\* Lines 41-45: the sidebar's granularity changes and the script reruns.
SelectGranularity ==
    /\ fpc # "input"
    /\ \E g \in Granularities \ {granularity} : granularity' = g
    /\ fpc' = "input" /\ resampled' = <<>>
    /\ UNCHANGED <<series, time_scope>>
    /\ UNCHANGED <<bvars, svars>>

NextPipeline == FilterResample \/ SelectScope \/ SelectGranularity

SpecPipeline == InitPipeline /\ [][NextPipeline]_vars

\* ------------------------------------------------------------- station snapshot
StationNames == {"A", "B"}
StationRows == {[station |-> a, to |-> t] : a \in StationNames, t \in {1, 2, NaT}}

\* sort_values("to"): ascending, missing instants last (na_position="last").
SortsBefore(x, y) == x # NaT /\ (y = NaT \/ x < y)

\* Line 85: sort_values("to").drop_duplicates("station", keep="last") keeps,
\* for each station, the row that sorts last; the default sort is not
\* stable, so among rows of equal key any one may come last.
LastSorted(df, a) ==
    {i \in 1..Len(df) :
        /\ df[i].station = a
        /\ \A j \in 1..Len(df) : df[j].station = a => ~SortsBefore(df[i].to, df[j].to)}

Present(df) == {df[i].station : i \in 1..Len(df)}

InitSnapshot ==
    /\ BackendIdle
    /\ series = <<>> /\ time_scope = "Past Week" /\ granularity = "Hourly"
    /\ resampled = <<>> /\ fpc = "input"
    /\ stations \in SeqsUpTo(StationRows, MaxStationRows)
    /\ snapshot = {}
    /\ spc = "input"

LatestStationData ==
    /\ spc = "input"
    /\ \E pick \in [Present(stations) -> 1..MaxStationRows] :
         /\ \A a \in Present(stations) : pick[a] \in LastSorted(stations, a)
         /\ snapshot' = {pick[a] : a \in Present(stations)}
    /\ spc' = "done"
    /\ UNCHANGED stations
    /\ UNCHANGED <<bvars, fvars>>

NextSnapshot == LatestStationData

SpecSnapshot == InitSnapshot /\ [][NextSnapshot]_vars

\* ------------------------------------------------------------- frontend claims
\* The rows of kept that fall in the bucket of width w starting at b.
InBucket(kept, b, w) == {i \in 1..Len(kept) : kept[i].t >= b /\ kept[i].t < b + w}

\* C7: every output row of filter_resample is the row of a bucket holding
\* at least one retained sample.
C7_NoRowForEmptyBucket ==
    fpc = "done" =>
        LET kept == Filtered(series, time_scope)
            w == Width(granularity)
        IN \A k \in 1..Len(resampled) : InBucket(kept, resampled[k].t, w) # {}

\* C7 as amended: the output has one row for every bucket from the bucket
\* of the earliest retained sample to that of the latest, consecutive rows
\* one bucket width apart; the row of a bucket with no retained sample
\* carries a null value (NaN), not zero and not an interpolated value.
C7_EmptyBucketRowIsNull ==
    fpc = "done" =>
        LET kept == Filtered(series, time_scope)
            w == Width(granularity)
            m == Len(resampled)
        IN /\ \A i \in 1..Len(kept) : \E k \in 1..m : i \in InBucket(kept, resampled[k].t, w)
           /\ \A k \in 1..(m - 1) : resampled[k + 1].t = resampled[k].t + w
           /\ m > 0 => /\ InBucket(kept, resampled[1].t, w) # {}
                       /\ InBucket(kept, resampled[m].t, w) # {}
           /\ \A k \in 1..m :
                 InBucket(kept, resampled[k].t, w) = {} =>
                     resampled[k].mean = [sum |-> NaN, n |-> 0]

C7_Witness ==
    /\ fpc = "done"
    /\ Len(resampled) = 3
    /\ granularity = "Monthly"
    /\ resampled[1].mean.n = 1
    /\ resampled[2].mean = [sum |-> NaN, n |-> 0]
    /\ InBucket(Filtered(series, time_scope), resampled[2].t, Width(granularity)) = {}
    /\ resampled[3].mean.n = 1

\* C8: for an empty input series filter_resample returns an empty result
\* and does not raise, whatever the time scope and granularity.
C8_EmptySeriesEmptyResult ==
    (series = <<>> /\ fpc # "input") => (fpc = "done" /\ resampled = <<>>)

C8_Witness ==
    /\ series = <<>> /\ fpc = "done" /\ resampled = <<>>
    /\ time_scope = "Past Year" /\ granularity = "Monthly"

\* C9: the station snapshot holds exactly one row per station of the
\* table, and that row carries the greatest timestamp among the station's
\* rows, also when some rows have no timestamp.
C9_SnapshotIsLatest ==
    spc = "done" =>
        /\ \A a \in Present(stations) :
              Cardinality({i \in snapshot : stations[i].station = a}) = 1
        /\ \A i \in snapshot : \A j \in 1..Len(stations) :
              (stations[j].station = stations[i].station /\ stations[j].to # NaT) =>
                  (stations[i].to # NaT /\ stations[i].to >= stations[j].to)

\* ------------------------------------------------------------- backend claims
Quiescent == \A u \in Uploaders : ~Active(u)

StoreVars == <<predExists, predFile, metaExists, metaFile>>

\* The records GET /predictions returns for the complete table t.
TableRows(t) == [i \in 1..t.n |-> OutRow(Page(t.gen, i, t.n))]

\* rows is the complete table of one upload (or of none).
WholeTable(rows) ==
    \A i \in 1..Len(rows) :
        /\ rows[i].gen = rows[1].gen
        /\ rows[i].idx = i
        /\ rows[i].n = Len(rows)

\* C1: whatever the interleaving of an upload with a GET /predictions, the
\* rows the reader is answered are the complete table of one upload (the
\* one stored before or the one being stored), never a partly overwritten
\* table.
C1_ReaderSeesWholeTable ==
    \A r \in Readers :
        (rd[r].pc = "done" /\ rd[r].status = 200) => WholeTable(rd[r].rows)

\* C2: once the upload bodies have finished, also after two overlapping
\* upload requests, the store holds exactly the complete table of one
\* upload, the one written last; no block of another upload remains.
C2_NoTornWrite ==
    (Quiescent /\ stored.gen # 0) =>
        /\ predExists
        /\ predFile = FileImage(stored.gen, stored.n, stored.schema)

C2_Witness ==
    \E u \in Uploaders : \E v \in Uploaders \ {u} :
        /\ up[u].pc = "done" /\ up[u].status = 200 /\ up[u].raced
        /\ up[v].pc = "done" /\ up[v].status = 200
        /\ up[v].df.gen = up[u].df.gen + 1
        /\ predFile = FileImage(up[v].df.gen, up[v].df.n, up[v].df.schema)

\* C3: a step by which an upload request arrives, is answered HTTP 400, or
\* returns after a 400 leaves the prediction file and the metadata file
\* exactly as they were.
C3_RejectedLeavesStore ==
    [][\A u \in Uploaders :
          (/\ up'[u] # up[u]
           /\ \/ up[u].pc = "idle"
              \/ up'[u].status = 400
              \/ up[u].status = 400)
          => StoreVars' = StoreVars]_vars

C3_Witness ==
    \E u \in Uploaders : \E v \in Uploaders \ {u} :
        /\ up[u].pc = "done" /\ up[u].status = 400 /\ up[u].kind = "csv"
        /\ up[u].missing # {}
        /\ up[v].pc = "done" /\ up[v].status = 400 /\ up[v].kind = "json"
        /\ stored.gen # 0
        /\ predFile = FileImage(stored.gen, stored.n, stored.schema)
        /\ metaFile = <<MetaJson(stored.gen, stored.gen)>>

\* C4: GET /predictions never errors: a read during which no upload body
\* ran is answered 200, and with nothing ever written it is answered
\* last_update = null and rows = [].
C4_ReadNeverErrors ==
    \A r \in Readers :
        (rd[r].pc = "done" /\ ~roverlap[r]) =>
            /\ rd[r].status = 200
            /\ (nextGen = 0 => rd[r].last_update = Null /\ rd[r].rows = <<>>)

\* C5: after successful uploads, with no upload in progress, GET
\* /predictions returns exactly the rows of the most recent successful
\* upload, timestamps in the serialized format, and no other row.
C5_RoundTrip ==
    \A r \in Readers :
        (rd[r].pc = "done" /\ ~roverlap[r] /\ lastOk.gen # 0) =>
            /\ rd[r].status = 200
            /\ rd[r].rows = TableRows(lastOk)

\* C6: an upload, CSV or JSON, whose table lacks required fields is
\* answered HTTP 400 and the error names every missing field.
C6_AllMissingReported ==
    \A u \in Uploaders :
        (up[u].pc = "done" /\ up[u].missing # {}) =>
            /\ up[u].status = 400
            /\ up[u].detail = up[u].missing

\* C10: whenever GET /predictions returns the rows of an uploaded table,
\* its last_update is non-null and was written by an upload no older than
\* the one the rows come from, also for a read between the steps of an
\* upload.
C10_LastUpdateCoversRows ==
    \A r \in Readers :
        (rd[r].pc = "done" /\ rd[r].status = 200 /\ rd[r].rows # <<>>
            /\ WholeTable(rd[r].rows)) =>
            /\ rd[r].last_update # Null
            /\ rd[r].by >= rd[r].rows[1].gen

====
